---- MODULE Spec2Model ----
(***************************************************************************)
(* Flat array-encoded GP trees (evogp, src/src/evogp/tree/tree.py):        *)
(* construction, the reference interpreter python_forward, the structural  *)
(* validator assert_valid, the serializers __str__ / to_infix and the      *)
(* batch adapter forward.                                                  *)
(*                                                                         *)
(* Arrays are functions over 0..n-1, as in the source.  Numbers are exact  *)
(* rationals <<n, d>> (d > 0, lowest terms); floating point rounding is    *)
(* not modelled.  A Python exception is a record naming its class and the  *)
(* source line that raises it.                                             *)
(***************************************************************************)
EXTENDS Integers, Sequences, FiniteSets, TLC

VARIABLES args, tree, pc, caller, inputs, i, operents, needed_length, idx,
          root_real_size, step, result, text, batch

vars == <<args, tree, pc, caller, inputs, i, operents, needed_length, idx,
          root_real_size, step, result, text, batch>>

(***************************************************************************)
(* Bounds of the model.                                                    *)
(***************************************************************************)
MaxLen == 5

(***************************************************************************)
(* Exact rational arithmetic.                                              *)
(***************************************************************************)
Abs(n) == IF n < 0 THEN -n ELSE n

RECURSIVE Gcd(_, _)
Gcd(a, b) == IF b = 0 THEN a ELSE Gcd(b, a % b)

Norm(n, d) ==
    LET s == IF d < 0 THEN -1 ELSE 1
        g == Gcd(Abs(n), Abs(d))
    IN  <<(s * n) \div g, (s * d) \div g>>

R(n) == <<n, 1>>
RAdd(a, b) == Norm(a[1] * b[2] + b[1] * a[2], a[2] * b[2])
RSub(a, b) == Norm(a[1] * b[2] - b[1] * a[2], a[2] * b[2])
RMul(a, b) == Norm(a[1] * b[1], a[2] * b[2])
RQuot(a, b) == Norm(a[1] * b[2], a[2] * b[1])

\* np.allclose(x, 0.0): |x - 0| <= atol + rtol * |0| with numpy's default
\* atol = 1e-8, i.e. |n| / d <= 1 / 10^8.
AllCloseZero(x) == Abs(x[1]) <= x[2] \div 100000000

(***************************************************************************)
(* Node kinds and opcodes (evogp.tree.utils: NType, Func).  Opcode ids are *)
(* stored in the float array node_value, like VAR indices and constants.   *)
(***************************************************************************)
NType == [VAR |-> 0, CONST |-> 1, UFUNC |-> 2, BFUNC |-> 3, TFUNC |-> 4]

Func == [IF |-> 0, ADD |-> 1, SUB |-> 2, MUL |-> 3, DIV |-> 4, POW |-> 5,
         SIN |-> 12]

FUNCS_DISPLAY ==
    [k \in {Func.IF, Func.ADD, Func.SUB, Func.MUL, Func.DIV, Func.POW, Func.SIN} |->
        CASE k = Func.IF -> "if"
          [] k = Func.ADD -> "+"
          [] k = Func.SUB -> "-"
          [] k = Func.MUL -> "*"
          [] k = Func.DIV -> "/"
          [] k = Func.POW -> "pow"
          [] k = Func.SIN -> "sin"]

FUNCS_NAMES ==
    [k \in {Func.IF, Func.ADD, Func.SUB, Func.MUL, Func.DIV, Func.POW, Func.SIN} |->
        CASE k = Func.IF -> "if"
          [] k = Func.ADD -> "+"
          [] k = Func.SUB -> "-"
          [] k = Func.MUL -> "*"
          [] k = Func.DIV -> "/"
          [] k = Func.POW -> "pow"
          [] k = Func.SIN -> "sin"]

UFuncs == {Func.SIN}
BFuncs == {Func.ADD, Func.SUB, Func.MUL, Func.DIV, Func.POW}
TFuncs == {Func.IF}

(***************************************************************************)
(* Arrays.                                                                 *)
(***************************************************************************)
Arr(s) == [k \in 0 .. Len(s) - 1 |-> s[k + 1]]
ALen(a) == Cardinality(DOMAIN a)
ASeq(a) == [k \in 1 .. ALen(a) |-> a[k - 1]]

(***************************************************************************)
(* The encodings a generator hands to the constructor: every prefix-order  *)
(* expression of n slots over il inputs, as a sequence of                  *)
(* [type, value, size] nodes.                                              *)
(***************************************************************************)
ConstSamples == {R(2)}

Leaves(il) ==
    {[type |-> NType.VAR, value |-> R(v), size |-> 1] : v \in 0 .. il - 1}
    \cup {[type |-> NType.CONST, value |-> c, size |-> 1] : c \in ConstSamples}

RECURSIVE Exprs(_, _, _)
Exprs(n, il, bf) ==
    IF n <= 0 THEN {}
    ELSE IF n = 1 THEN {<<l>> : l \in Leaves(il)}
    ELSE
      {<<[type |-> NType.UFUNC, value |-> R(f), size |-> n]>> \o a :
          f \in UFuncs, a \in Exprs(n - 1, il, bf)}
      \cup UNION {
          {<<[type |-> NType.BFUNC, value |-> R(f), size |-> n]>> \o a \o b :
              f \in bf, a \in Exprs(k, il, bf), b \in Exprs(n - 1 - k, il, bf)} :
          k \in 1 .. n - 2}
      \cup UNION {
          {<<[type |-> NType.TFUNC, value |-> R(f), size |-> n]>> \o a \o b \o c :
              f \in TFuncs, a \in Exprs(k[1], il, bf), b \in Exprs(k[2], il, bf),
              c \in Exprs(n - 1 - k[1] - k[2], il, bf)} :
          k \in {p \in (1 .. n - 3) \X (1 .. n - 3) : p[1] + p[2] <= n - 2}}

\* Unused slots after the root span, up to the buffer's capacity: zero-filled.
PadNode == [type |-> 0, value |-> R(0), size |-> 0]

Padded(e, n) == e \o [k \in 1 .. n - Len(e) |-> PadNode]

ValidNodes(il, bf) ==
    UNION {{Padded(e, n) : e \in Exprs(m, il, bf), n \in m .. MaxLen} :
              m \in 1 .. MaxLen}

\* One subtree_size entry overwritten with another value.
Corrupt(ns, j, s) == [ns EXCEPT ![j] = [@ EXCEPT !.size = s]]

Args(ns, il, ol) ==
    [input_len |-> il, output_len |-> ol,
     node_value |-> Arr([k \in 1 .. Len(ns) |-> ns[k].value]),
     node_type |-> Arr([k \in 1 .. Len(ns) |-> ns[k].type]),
     subtree_size |-> Arr([k \in 1 .. Len(ns) |-> ns[k].size])]

\* The three arrays with the same length, or one of node_type / subtree_size
\* one entry shorter or longer than node_value.
Reshape(a, m) ==
    CASE m = "type_short" ->
           [a EXCEPT !.node_type = Arr(SubSeq(ASeq(@), 1, ALen(@) - 1))]
      [] m = "type_long" -> [a EXCEPT !.node_type = Arr(Append(ASeq(@), 0))]
      [] m = "size_short" ->
           [a EXCEPT !.subtree_size = Arr(SubSeq(ASeq(@), 1, ALen(@) - 1))]
      [] m = "size_long" -> [a EXCEPT !.subtree_size = Arr(Append(ASeq(@), 0))]
      [] OTHER -> a

Shapes == {"same", "type_short", "type_long", "size_short", "size_long"}

\* (input_len, output_len) pairs handed to the constructor.
LenPairs == {<<1, 1>>, <<0, 2>>, <<0, 0>>, <<-1, -1>>}

(***************************************************************************)
(* Results and exceptions.                                                 *)
(***************************************************************************)
NoTree ==
    [input_len |-> 0, output_len |-> 0, gp_len |-> 0, node_value |-> <<>>,
     node_type |-> <<>>, subtree_size |-> <<>>]

NoArgs ==
    [input_len |-> 0, output_len |-> 0, node_value |-> <<>>,
     node_type |-> <<>>, subtree_size |-> <<>>]

NoStep == [i |-> -1, kind |-> "none", popped |-> 0, op1 |-> R(0), op2 |-> R(0),
           res |-> R(0), depth |-> 0]

NoResult == [op |-> "none", ok |-> TRUE, class |-> "none", line |-> 0,
             index |-> -1, in |-> "none", value |-> R(0)]

Returned(op, v) == [op |-> op, ok |-> TRUE, class |-> "none", line |-> 0,
                    index |-> -1, in |-> "none", value |-> v]

\* An exception of class c raised at source line l of function f (slot k, when
\* the statement reads or checks a slot), leaving the call op.
Raised(op, c, l, f, k) == [op |-> op, ok |-> FALSE, class |-> c, line |-> l,
                           index |-> k, in |-> f, value |-> R(0)]

(***************************************************************************)
(* Tree.__init__                                                           *)
(***************************************************************************)
\* The constructor without the assertion of lines 25-27.
TreeInitUnchecked(a) ==
    /\ pc = "new"
    /\ args' = a
    /\ LET gp_len == ALen(a.node_value)
       IN  IF ALen(a.node_type) # gp_len
           THEN /\ result' = Raised("__init__", "AssertionError", 22, "__init__", -1)
                /\ pc' = "failed"
                /\ tree' = NoTree
           ELSE /\ result' = Returned("__init__", R(0))
                /\ pc' = "ready"
                /\ tree' = [input_len |-> a.input_len, output_len |-> a.output_len,
                            gp_len |-> gp_len, node_value |-> a.node_value,
                            node_type |-> a.node_type,
                            subtree_size |-> a.subtree_size]
    /\ UNCHANGED <<caller, inputs, i, operents, needed_length, idx,
                   root_real_size, step, text, batch>>

TreeInit(a) ==
    /\ pc = "new"
    /\ args' = a
    /\ LET gp_len == ALen(a.node_value)
       IN  IF ALen(a.node_type) # gp_len
           THEN /\ result' = Raised("__init__", "AssertionError", 22, "__init__", -1)
                /\ pc' = "failed"
                /\ tree' = NoTree
           ELSE IF ALen(a.subtree_size) # gp_len
           THEN /\ result' = Raised("__init__", "AssertionError", 25, "__init__", -1)
                /\ pc' = "failed"
                /\ tree' = NoTree
           ELSE /\ result' = Returned("__init__", R(0))
                /\ pc' = "ready"
                /\ tree' = [input_len |-> a.input_len, output_len |-> a.output_len,
                            gp_len |-> gp_len, node_value |-> a.node_value,
                            node_type |-> a.node_type,
                            subtree_size |-> a.subtree_size]
    /\ UNCHANGED <<caller, inputs, i, operents, needed_length, idx,
                   root_real_size, step, text, batch>>

\* What the constructor is handed: an encoding with at most one subtree_size
\* entry differing from the derived size, or one whose arrays differ in length.
Construct ==
    /\ pc = "new"
    /\ \E lp \in LenPairs :
         \E ns \in ValidNodes(lp[1], {Func.SUB, Func.POW}) :
            \/ \E j \in 1 .. Len(ns), s \in 0 .. MaxLen + 1 :
                  TreeInit(Args(Corrupt(ns, j, s), lp[1], lp[2]))
            \/ \E m \in Shapes : TreeInit(Reshape(Args(ns, lp[1], lp[2]), m))

\* The encodings of a generator: valid single-output trees over two inputs.
ConstructValid ==
    /\ pc = "new"
    /\ \E ns \in ValidNodes(2, BFuncs) : TreeInit(Args(ns, 2, 1))

\* Valid trees over one input with one subtree_size entry overwritten.
ConstructFlipped ==
    /\ pc = "new"
    /\ \E ns \in ValidNodes(1, {Func.ADD, Func.DIV, Func.POW}) :
         \E j \in 1 .. Len(ns), s \in 0 .. MaxLen + 1, ol \in {1, 2} :
            TreeInit(Args(Corrupt(ns, j, s), 1, ol))

Init ==
    /\ args = NoArgs
    /\ tree = NoTree
    /\ pc = "new"
    /\ caller = "none"
    /\ inputs = <<>>
    /\ i = 0
    /\ operents = <<>>
    /\ needed_length = 0
    /\ idx = 0
    /\ root_real_size = 0
    /\ step = NoStep
    /\ result = NoResult
    /\ text = <<>>
    /\ batch = <<>>

(***************************************************************************)
(* Leaving a call: the locals die, the outcome stays.                      *)
(***************************************************************************)
Leave(r) ==
    /\ pc' = "idle"
    /\ result' = r
    /\ caller' = "none"
    /\ UNCHANGED inputs
    /\ i' = 0
    /\ operents' = <<>>
    /\ needed_length' = 0
    /\ idx' = 0
    /\ root_real_size' = 0
    /\ step' = NoStep

Push(st, x) == Append(st, x)
Top(st) == st[Len(st)]
Pop(st) == SubSeq(st, 1, Len(st) - 1)

\* int(x) of a float: truncation toward zero.
Trunc(x) == IF x[1] >= 0 THEN x[1] \div x[2] ELSE -((-x[1]) \div x[2])

(***************************************************************************)
(* Tree.python_forward                                                     *)
(***************************************************************************)
\* The protected division of the GP literature, which yields 1.
ProtectedDivOne(op1, op2) ==
    IF AllCloseZero(op1) THEN R(1) ELSE RQuot(op2, op1)

\* Lines 127-131: res of a DIV node, op1 popped first, op2 second.
ProtectedDiv(op1, op2) ==
    IF AllCloseZero(op1) THEN op2 ELSE RQuot(op2, op1)

\* The dispatch with the operands in pop order: op1 OP op2.
ApplyFuncPopOrder(v, op1, op2) ==
    CASE v = R(Func.ADD) -> [ok |-> TRUE, res |-> RAdd(op1, op2)]
      [] v = R(Func.SUB) -> [ok |-> TRUE, res |-> RSub(op1, op2)]
      [] v = R(Func.MUL) -> [ok |-> TRUE, res |-> RMul(op1, op2)]
      [] v = R(Func.DIV) -> [ok |-> TRUE, res |-> ProtectedDiv(op2, op1)]
      [] OTHER -> [ok |-> FALSE, res |-> R(0)]

\* Lines 121-133: the opcode dispatch of a function node.
ApplyFunc(v, op1, op2) ==
    CASE v = R(Func.ADD) -> [ok |-> TRUE, res |-> RAdd(op2, op1)]
      [] v = R(Func.SUB) -> [ok |-> TRUE, res |-> RSub(op2, op1)]
      [] v = R(Func.MUL) -> [ok |-> TRUE, res |-> RMul(op2, op1)]
      [] v = R(Func.DIV) -> [ok |-> TRUE, res |-> ProtectedDiv(op1, op2)]
      [] OTHER -> [ok |-> FALSE, res |-> R(0)]

\* Lines 118-120: the operands a node that is neither VAR nor CONST pops.
ForwardPops(type) == 2

BodyOk(st, sp) == [ok |-> TRUE, class |-> "none", line |-> 0, operents |-> st,
                   step |-> sp]
BodyRaise(c, l, st, sp) == [ok |-> FALSE, class |-> c, line |-> l, operents |-> st,
                            step |-> sp]

\* Lines 114-134: one iteration of the loop, at slot k with stack st.
ForwardBody(t, inp, k, st) ==
    LET sp == [NoStep EXCEPT !.i = k, !.depth = Len(st)]
    IN
    IF k >= t.gp_len THEN BodyRaise("IndexError", 114, st, sp)
    ELSE IF t.node_type[k] = NType.VAR THEN
        LET n == Trunc(t.node_value[k])
            m == IF n < 0 THEN n + ALen(inp) ELSE n
        IN  IF m < 0 \/ m >= ALen(inp)
            THEN BodyRaise("IndexError", 115, st, sp)
            ELSE BodyOk(Push(st, inp[m]), [sp EXCEPT !.kind = "var", !.res = inp[m]])
    ELSE IF t.node_type[k] = NType.CONST THEN
        BodyOk(Push(st, t.node_value[k]),
               [sp EXCEPT !.kind = "const", !.res = t.node_value[k]])
    ELSE
        LET want == ForwardPops(t.node_type[k])
            have == IF Len(st) < want THEN Len(st) ELSE want
            sf == [sp EXCEPT !.kind = "func", !.popped = have]
        IN  IF have < want
            THEN BodyRaise("IndexError", 119 + have, SubSeq(st, 1, Len(st) - have), sf)
            ELSE
              LET op1 == st[Len(st)]
                  op2 == st[Len(st) - 1]
                  rest == SubSeq(st, 1, Len(st) - want)
                  r == ApplyFunc(t.node_value[k], op1, op2)
                  so == [sf EXCEPT !.op1 = op1, !.op2 = op2]
              IN  IF r.ok
                  THEN BodyOk(Push(rest, r.res), [so EXCEPT !.res = r.res])
                  ELSE BodyRaise("NotImplementedError", 133, rest, so)

\* Lines 106-112: the entry checks, for the call `who`, with input vector inp.
PfEnter(inp, who) ==
    IF ALen(inp) # tree.input_len
    THEN Leave(Raised(who, "AssertionError", 106, "python_forward", -1))
    ELSE IF tree.output_len # 1
    THEN Leave(Raised(who, "AssertionError", 107, "python_forward", -1))
    ELSE /\ pc' = "python_forward"
         /\ caller' = who
         /\ inputs' = inp
         /\ i' = tree.subtree_size[0] - 1
         /\ operents' = <<>>
         /\ result' = NoResult
         /\ step' = NoStep
         /\ UNCHANGED <<needed_length, idx, root_real_size>>

InputVecs(il) ==
    IF il = 2 THEN {Arr(<<R(2), R(3)>>), Arr(<<R(0), R(1)>>), Arr(<<R(3), R(0)>>),
                    Arr(<<R(1)>>)}
    ELSE IF il = 1 THEN {Arr(<<R(3)>>), Arr(<<R(0)>>), Arr(<<>>)}
    ELSE {Arr(<<>>), Arr(<<R(1)>>)}

python_forward ==
    /\ pc = "ready"
    /\ \E inp \in InputVecs(tree.input_len) : PfEnter(inp, "python_forward")
    /\ text' = <<>>
    /\ batch' = <<>>
    /\ UNCHANGED <<args, tree>>

PfStep ==
    /\ pc = "python_forward"
    /\ i >= 0
    /\ LET b == ForwardBody(tree, inputs, i, operents)
       IN  IF b.ok
           THEN /\ operents' = b.operents
                /\ step' = b.step
                /\ i' = i - 1
                /\ UNCHANGED <<pc, caller, inputs, needed_length, idx,
                               root_real_size, result>>
           ELSE Leave(Raised(caller, b.class, b.line, "python_forward", i))
    /\ UNCHANGED <<args, tree, text, batch>>

\* Lines 136-138, and the return into assert_valid (line 146 to line 149).
PfReturn ==
    /\ pc = "python_forward"
    /\ i < 0
    /\ IF Len(operents) # 1
       THEN Leave(Raised(caller, "AssertionError", 137, "python_forward", -1))
       ELSE IF caller = "assert_valid"
       THEN /\ pc' = "walk"
            /\ needed_length' = 1
            /\ idx' = 0
            /\ operents' = <<>>
            /\ i' = 0
            /\ step' = NoStep
            /\ UNCHANGED <<caller, inputs, root_real_size, result>>
       ELSE Leave(Returned("python_forward", operents[1]))
    /\ UNCHANGED <<args, tree, text, batch>>

\* Lines 113-138 as one function: the loop from slot k down, then the return.
RECURSIVE ForwardLoop(_, _, _, _)
ForwardLoop(t, inp, k, st) ==
    IF k < 0 THEN BodyOk(st, NoStep)
    ELSE LET b == ForwardBody(t, inp, k, st)
         IN  IF b.ok THEN ForwardLoop(t, inp, k - 1, b.operents) ELSE b

PythonForward(t, inp) ==
    LET b == ForwardLoop(t, inp, t.subtree_size[0] - 1, <<>>)
    IN  IF b.ok /\ Len(b.operents) = 1
        THEN [ok |-> TRUE, value |-> b.operents[1]]
        ELSE [ok |-> FALSE, value |-> R(0)]

(***************************************************************************)
(* Tree.assert_valid                                                       *)
(***************************************************************************)
\* Line 145: dummy_input = np.array([0.0] * self.input_len)
DummyInput(il) == [k \in 0 .. il - 1 |-> R(0)]

assert_valid ==
    /\ pc = "ready"
    /\ PfEnter(DummyInput(tree.input_len), "assert_valid")
    /\ text' = <<>>
    /\ batch' = <<>>
    /\ UNCHANGED <<args, tree>>

\* The forward walk counting one child for every function node.
WalkNeedsOne(type) ==
    CASE type = NType.UFUNC -> 1
      [] type = NType.BFUNC -> 1
      [] type = NType.TFUNC -> 1
      [] OTHER -> 0

\* Lines 152-157: what a visited node adds to needed_length.
WalkNeeds(type) ==
    CASE type = NType.UFUNC -> 1
      [] type = NType.BFUNC -> 2
      [] type = NType.TFUNC -> 3
      [] OTHER -> 0

\* Lines 150-165: one iteration of the forward walk; on leaving the loop, the
\* root span check and the start of the reverse pass.
WalkStep ==
    /\ pc = "walk"
    /\ IF idx >= tree.gp_len
       THEN Leave(Raised(caller, "IndexError", 152, "assert_valid", idx))
       ELSE LET nl == needed_length - 1 + WalkNeeds(tree.node_type[idx])
            IN  IF nl # 0
                THEN /\ needed_length' = nl
                     /\ idx' = idx + 1
                     /\ UNCHANGED <<pc, caller, inputs, i, operents,
                                    root_real_size, step, result>>
                ELSE IF tree.subtree_size[0] # idx + 1
                THEN Leave(Raised(caller, "AssertionError", 165, "assert_valid", 0))
                ELSE /\ needed_length' = nl
                     /\ idx' = idx + 1
                     /\ root_real_size' = idx + 1
                     /\ pc' = "subsize"
                     /\ i' = idx
                     /\ operents' = <<>>
                     /\ UNCHANGED <<caller, inputs, step, result>>
    /\ UNCHANGED <<args, tree, text, batch>>

\* The reverse pass with the TFUNC branch pasted over the BFUNC one.
SubsizePopsPasted(type) ==
    CASE type = NType.VAR -> 0
      [] type = NType.CONST -> 0
      [] type = NType.UFUNC -> 1
      [] type = NType.BFUNC -> 3
      [] type = NType.TFUNC -> 3
      [] OTHER -> -1

\* Lines 169-186: the sizes a node pops in the reverse pass; -1: no such kind.
SubsizePops(type) ==
    CASE type = NType.VAR -> 0
      [] type = NType.CONST -> 0
      [] type = NType.UFUNC -> 1
      [] type = NType.BFUNC -> 2
      [] type = NType.TFUNC -> 3
      [] OTHER -> -1

RECURSIVE SumSeq(_)
SumSeq(q) == IF q = <<>> THEN 0 ELSE q[1] + SumSeq(Tail(q))

\* The line of the n-th pop (n from 0) of a node of this kind.
SubsizePopLine(type, n) ==
    CASE type = NType.UFUNC -> 174
      [] type = NType.BFUNC -> 177 + n
      [] OTHER -> 181 + n

\* Lines 169-188: one iteration of the reverse pass, at slot k with stack st.
SubsizeBody(t, k, st) ==
    LET want == SubsizePops(t.node_type[k])
        have == IF Len(st) < want THEN Len(st) ELSE want
        sp == [NoStep EXCEPT !.i = k, !.depth = Len(st), !.kind = "size",
                             !.popped = IF want < 0 THEN 0 ELSE have]
    IN  IF want < 0 THEN BodyRaise("NotImplementedError", 186, st, sp)
        ELSE IF have < want
        THEN BodyRaise("IndexError", SubsizePopLine(t.node_type[k], have),
                       SubSeq(st, 1, Len(st) - have), sp)
        ELSE
          LET size == SumSeq(SubSeq(st, Len(st) - want + 1, Len(st))) + 1
              st2 == Push(SubSeq(st, 1, Len(st) - want), size)
          IN  IF t.subtree_size[k] # size
              THEN BodyRaise("AssertionError", 188, st2, sp)
              ELSE BodyOk(st2, sp)

SubsizeStep ==
    /\ pc = "subsize"
    /\ i >= 0
    /\ LET b == SubsizeBody(tree, i, operents)
       IN  IF b.ok
           THEN /\ operents' = b.operents
                /\ step' = b.step
                /\ i' = i - 1
                /\ UNCHANGED <<pc, caller, inputs, needed_length, idx,
                               root_real_size, result>>
           ELSE Leave(Raised(caller, b.class, b.line, "assert_valid", i))
    /\ UNCHANGED <<args, tree, text, batch>>

\* Lines 149-163 as one function: the index at which needed_length reaches 0,
\* or -1 when the walk leaves the buffer first.
RECURSIVE WalkLoop(_, _, _)
WalkLoop(t, k, nl) ==
    IF k >= t.gp_len THEN -1
    ELSE LET n == nl - 1 + WalkNeeds(t.node_type[k])
         IN  IF n = 0 THEN k + 1 ELSE WalkLoop(t, k + 1, n)

\* Lines 167-188 as one function: the reverse pass from slot k down.
RECURSIVE SubsizeLoop(_, _, _)
SubsizeLoop(t, k, st) ==
    IF k < 0 THEN BodyOk(st, NoStep)
    ELSE LET b == SubsizeBody(t, k, st)
         IN  IF b.ok THEN SubsizeLoop(t, k - 1, b.operents) ELSE b

\* Lines 190-192.
SubsizeReturn ==
    /\ pc = "subsize"
    /\ i < 0
    /\ IF Len(operents) # 1
       THEN Leave(Raised(caller, "AssertionError", 190, "assert_valid", -1))
       ELSE Leave(Returned("assert_valid", R(0)))
    /\ UNCHANGED <<args, tree, text, batch>>

(***************************************************************************)
(* Serializers.  A string is the sequence of its tokens.                   *)
(***************************************************************************)
Tok(k, str, n) == [k |-> k, s |-> str, n |-> n]
Sym(str) == Tok("sym", str, R(0))

\* f"{v:.2f}": the nearest multiple of 1/100, ties to even.
Round2(x) ==
    LET h == (100 * x[1]) \div x[2]
        rem == 100 * x[1] - h * x[2]
        up == (2 * rem > x[2]) \/ (2 * rem = x[2] /\ h % 2 = 1)
    IN  Norm(IF up THEN h + 1 ELSE h, 100)

VarText(v) == <<Tok("var", "x", R(Trunc(v)))>>
ConstText(v) == <<Tok("num", "", Round2(v))>>

\* Line 232: the infix-style rendering of a binary node whose pops give
\* first (popped first) and second.
InfixText(v, first, second) ==
    <<Sym("(")>> \o first \o <<Tok("op", FUNCS_DISPLAY[Trunc(v)], R(0))>>
                 \o second \o <<Sym(")")>>

\* Lines 227, 230, 235: fn(arg,...) with the arguments in pop order.
RECURSIVE Joined(_)
Joined(ts) ==
    IF Len(ts) = 1 THEN ts[1] ELSE ts[1] \o <<Sym(",")>> \o Joined(Tail(ts))

CallText(v, popped) ==
    <<Tok("fn", FUNCS_DISPLAY[Trunc(v)], R(0)), Sym("(")>> \o Joined(popped)
        \o <<Sym(")")>>

\* self.node_type[:num]: the slots a Python slice keeps.
SliceLen(num, n) ==
    IF num < 0 THEN (IF n + num < 0 THEN 0 ELSE n + num)
    ELSE IF num > n THEN n ELSE num

\* Lines 222-236: one iteration of the loop over the flipped arrays, for the
\* node at slot k with stack st.
InfixBody(t, k, st) ==
    LET ty == t.node_type[k]
        v == t.node_value[k]
        want == IF ty = NType.UFUNC THEN 1
                ELSE IF ty = NType.BFUNC THEN 2
                ELSE IF ty = NType.TFUNC THEN 3 ELSE 0
        line == IF ty = NType.UFUNC THEN 227
                ELSE IF ty = NType.BFUNC
                     THEN (IF Trunc(v) \in {5, 6, 7} THEN 230 ELSE 232)
                ELSE 235
    IN  IF ty = NType.VAR THEN BodyOk(Push(st, VarText(v)), NoStep)
        ELSE IF ty = NType.CONST THEN BodyOk(Push(st, ConstText(v)), NoStep)
        ELSE IF want = 0 THEN BodyOk(st, NoStep)
        ELSE IF Len(st) < want THEN BodyRaise("IndexError", line, <<>>, NoStep)
        ELSE
          LET popped == [n \in 1 .. want |-> st[Len(st) + 1 - n]]
              rest == SubSeq(st, 1, Len(st) - want)
          IN  IF ty = NType.BFUNC /\ Trunc(v) \notin {5, 6, 7}
              THEN BodyOk(Push(rest, InfixText(v, popped[1], popped[2])), NoStep)
              ELSE BodyOk(Push(rest, CallText(v, popped)), NoStep)

\* The loop of lines 221-236 from slot k down to slot 0.
RECURSIVE InfixLoop(_, _, _)
InfixLoop(t, k, st) ==
    IF k < 0 THEN BodyOk(st, NoStep)
    ELSE LET b == InfixBody(t, k, st)
         IN  IF b.ok THEN InfixLoop(t, k - 1, b.operents) ELSE b

\* Lines 214-237.
ToInfix(t) ==
    LET num == SliceLen(t.subtree_size[0], t.gp_len)
        b == InfixLoop(t, num - 1, <<>>)
    IN  IF ~b.ok THEN [ok |-> FALSE, line |-> b.line, text |-> <<>>]
        ELSE IF b.operents = <<>> THEN [ok |-> FALSE, line |-> 237, text |-> <<>>]
        ELSE [ok |-> TRUE, line |-> 0, text |-> Top(b.operents)]

Warned(r) == [r EXCEPT !.class = "Warning", !.line = 216]

\* to_infix reversing self.node_type in place instead of flipping a copy.
to_infix_inplace ==
    /\ pc = "ready"
    /\ LET r == ToInfix(tree)
           out == IF r.ok THEN Returned("to_infix", R(0))
                  ELSE Raised("to_infix", "IndexError", r.line, "to_infix", -1)
           num == SliceLen(tree.subtree_size[0], tree.gp_len)
       IN  /\ Leave(IF tree.output_len # 1 THEN Warned(out) ELSE out)
           /\ text' = r.text
           /\ tree' = [tree EXCEPT !.node_type =
                          [k \in DOMAIN @ |-> IF k < num THEN @[num - 1 - k] ELSE @[k]]]
    /\ batch' = <<>>
    /\ UNCHANGED args

to_infix ==
    /\ pc = "ready"
    /\ LET r == ToInfix(tree)
           out == IF r.ok THEN Returned("to_infix", R(0))
                  ELSE Raised("to_infix", "IndexError", r.line, "to_infix", -1)
       IN  /\ Leave(IF tree.output_len # 1 THEN Warned(out) ELSE out)
           /\ text' = r.text
    /\ batch' = <<>>
    /\ UNCHANGED <<args, tree>>

\* Lines 200-210: the token of slot k.
StrToken(t, k) ==
    LET ty == t.node_type[k]
        v == t.node_value[k]
    IN  IF ty \in {NType.UFUNC, NType.BFUNC, NType.TFUNC}
        THEN <<Tok("fn", FUNCS_NAMES[Trunc(v)], R(0)), Sym(" ")>>
        ELSE IF ty = NType.VAR THEN VarText(v) \o <<Sym(" ")>>
        ELSE IF ty = NType.CONST THEN ConstText(v) \o <<Sym(" ")>>
        ELSE <<Sym(" ")>>

\* Lines 198-212, from slot k on, with res the string so far.
RECURSIVE StrLoop(_, _, _)
StrLoop(t, k, res) ==
    IF k >= t.subtree_size[0] THEN [ok |-> TRUE, text |-> res]
    ELSE IF k >= t.gp_len THEN [ok |-> FALSE, text |-> <<>>]
    ELSE StrLoop(t, k + 1, res \o StrToken(t, k))

str ==
    /\ pc = "ready"
    /\ LET r == StrLoop(tree, 0, <<>>)
       IN  /\ Leave(IF r.ok THEN Returned("__str__", R(0))
                    ELSE Raised("__str__", "IndexError", 200, "__str__",
                                tree.gp_len))
           /\ text' = r.text
    /\ batch' = <<>>
    /\ UNCHANGED <<args, tree>>

(***************************************************************************)
(* Tree.forward: the batch adapter.  x is given by its shape; the external *)
(* kernel torch.ops.evogp.tree_evaluate is the record of its arguments.    *)
(***************************************************************************)
Repeat(a, n) == [b \in 0 .. n - 1 |-> a]

XShapes(il) ==
    LET n == IF il < 0 THEN 0 ELSE il
    IN  {<<n>>, <<1, n>>, <<2, n>>, <<2, n + 1>>, <<1, 1, n>>}

\* Lines 40-72.
Forward(t, shape) ==
    IF Len(shape) > 2 THEN [ok |-> FALSE, line |-> 43, call |-> <<>>]
    ELSE LET x == IF Len(shape) = 1 THEN <<1>> \o shape ELSE shape
             batch_size == x[1]
         IN  IF x[2] # t.input_len THEN [ok |-> FALSE, line |-> 49, call |-> <<>>]
             ELSE [ok |-> TRUE, line |-> 0,
                   call |-> <<[popsize |-> batch_size, gp_len |-> t.gp_len,
                               var_len |-> t.input_len, out_len |-> t.output_len,
                               value |-> Repeat(t.node_value, batch_size),
                               node_type |-> Repeat(t.node_type, batch_size),
                               subtree_size |-> Repeat(t.subtree_size, batch_size),
                               variables |-> x,
                               squeeze |-> (Len(shape) = 1)]>>]

forward ==
    /\ pc = "ready"
    /\ \E shape \in XShapes(tree.input_len) :
         LET r == Forward(tree, shape)
         IN  /\ Leave(IF r.ok THEN Returned("forward", R(0))
                      ELSE Raised("forward", "AssertionError", r.line, "forward", -1))
             /\ batch' = r.call
    /\ text' = <<>>
    /\ UNCHANGED <<args, tree>>

(***************************************************************************)
(* The program: construction, then any sequence of consumer calls.         *)
(***************************************************************************)
\* The caller takes the value returned or the exception raised.
Taken ==
    /\ pc = "idle"
    /\ result.op \notin {"none", "__init__"}
    /\ pc' = "ready"
    /\ result' = NoResult
    /\ text' = <<>>
    /\ batch' = <<>>
    /\ inputs' = <<>>
    /\ UNCHANGED <<args, tree, caller, i, operents, needed_length, idx,
                   root_real_size, step>>

Next ==
    \/ Construct
    \/ Taken
    \/ python_forward
    \/ PfStep
    \/ PfReturn
    \/ assert_valid
    \/ WalkStep
    \/ SubsizeStep
    \/ SubsizeReturn
    \/ to_infix
    \/ str
    \/ forward

Spec == Init /\ [][Next]_vars

\* The reference interpreter and the infix serializer on generated trees.
NextEval ==
    \/ ConstructValid
    \/ python_forward
    \/ PfStep
    \/ PfReturn
    \/ to_infix

SpecEval == Init /\ [][NextEval]_vars

\* The validator on valid and singly corrupted trees.
NextValidate ==
    \/ ConstructFlipped
    \/ assert_valid
    \/ PfStep
    \/ PfReturn
    \/ WalkStep
    \/ SubsizeStep
    \/ SubsizeReturn

SpecValidate == Init /\ [][NextValidate]_vars

(***************************************************************************)
(* The encoding discipline, as the data model states it.                   *)
(***************************************************************************)
Kinds == {NType.VAR, NType.CONST, NType.UFUNC, NType.BFUNC, NType.TFUNC}

Children(type) ==
    IF type = NType.UFUNC THEN 1
    ELSE IF type = NType.BFUNC THEN 2
    ELSE IF type = NType.TFUNC THEN 3 ELSE 0

\* The number of slots of the subtree rooted at slot k, from the node kinds
\* alone; more than gp_len when the subtree runs off the buffer.
RECURSIVE DSize(_, _)
DSize(t, k) ==
    IF k >= t.gp_len THEN t.gp_len + 1
    ELSE LET n == Children(t.node_type[k])
             c1 == DSize(t, k + 1)
             c2 == DSize(t, k + 1 + c1)
             c3 == DSize(t, k + 1 + c1 + c2)
         IN  IF n = 0 THEN 1
             ELSE IF n = 1 THEN 1 + c1
             ELSE IF n = 2 THEN 1 + c1 + c2
             ELSE 1 + c1 + c2 + c3

Span(t) == DSize(t, 0)

\* Everything a valid tree needs but the stored sizes.
Shaped(t) ==
    /\ t.gp_len >= 1
    /\ Span(t) <= t.gp_len
    /\ \A k \in 0 .. Span(t) - 1 :
         /\ t.node_type[k] \in Kinds
         /\ t.node_type[k] = NType.VAR =>
              /\ t.node_value[k][2] = 1
              /\ t.node_value[k][1] \in 0 .. t.input_len - 1

Valid(t) ==
    /\ Shaped(t)
    /\ \A k \in 0 .. Span(t) - 1 : t.subtree_size[k] = DSize(t, k)

\* A valid tree with exactly the entry subtree_size[j] changed.
OneFlip(t, j) ==
    /\ Shaped(t)
    /\ j \in 0 .. Span(t) - 1
    /\ t.subtree_size[j] # DSize(t, j)
    /\ \A k \in (0 .. Span(t) - 1) \ {j} : t.subtree_size[k] = DSize(t, k)

\* Single-output trees of CONST, VAR and binary ADD, SUB, MUL, DIV nodes.
Arithmetic(t) ==
    /\ t.output_len = 1
    /\ t.input_len >= 0
    /\ \A k \in 0 .. Span(t) - 1 :
         \/ t.node_type[k] \in {NType.VAR, NType.CONST}
         \/ /\ t.node_type[k] = NType.BFUNC
            /\ t.node_value[k] \in {R(Func.ADD), R(Func.SUB), R(Func.MUL), R(Func.DIV)}

\* The error taxonomy, by the statement that raises.
EvaluationError(r) == ~r.ok /\ r.in = "python_forward"
MalformedSpan(r) == ~r.ok /\ r.class = "AssertionError" /\ r.line = 165
SizeMismatch(r, j) ==
    ~r.ok /\ r.class = "AssertionError" /\ r.line = 188 /\ r.index = j
StackUnderflow(r) == ~r.ok /\ r.class = "IndexError" /\ r.line \in 174 .. 183
TrailingOperands(r) == ~r.ok /\ r.class = "AssertionError" /\ r.line = 190

Validated == pc = "idle" /\ result.op = "assert_valid"

(***************************************************************************)
(* C1: for every valid tree encoding (any mix of CONST, VAR, UFUNC, BFUNC  *)
(* and TFUNC nodes, sizes satisfying the recursive identity, root span     *)
(* within gp_len, VAR values in [0, input_len)), assert_valid finishes     *)
(* without raising.  Stated for single-output trees, where the entry       *)
(* assertions of the interpreter hold.                                     *)
(***************************************************************************)
C1_ValidTreeValidates ==
    (Validated /\ Valid(tree) /\ tree.output_len = 1 /\ tree.input_len >= 0)
        => result.ok

C3_SpanCheckedBeforeEvaluation ==
    (/\ pc \notin {"new", "failed"}
     /\ tree.output_len = 1
     /\ tree.input_len >= 0
     /\ tree.subtree_size[0] > tree.gp_len) =>
        /\ ~(pc = "python_forward" /\ caller = "assert_valid")
        /\ Validated => MalformedSpan(result)

(***************************************************************************)
(* C9: in the interpreter a function node of arity k pops exactly k        *)
(* operands (UFUNC 1, BFUNC 2, TFUNC 3), so on a valid single-output tree  *)
(* the interpreter never fails to pop and never ends with another number   *)
(* of values than one.                                                     *)
(***************************************************************************)
C9_PopsArity ==
    (Valid(tree) /\ tree.output_len = 1) =>
        /\ (pc = "python_forward" /\ step.kind = "func") =>
               step.popped = Children(tree.node_type[step.i])
        /\ (pc = "idle" /\ EvaluationError(result)) =>
               result.line \notin {119, 120, 137}

(***************************************************************************)
(* C10: once the forward walk of assert_valid has ended at n, the reverse  *)
(* pass over slots n-1 .. 0 never pops from an empty stack and leaves      *)
(* exactly one value after slot 0, whatever subtree_size holds: of the     *)
(* failures of that pass only the size mismatch of line 188 occurs.  The   *)
(* last conjunct runs the walk and the pass on every constructed tree,     *)
(* also those (with unary or ternary nodes) on which assert_valid raises   *)
(* before it reaches them.                                                 *)
(***************************************************************************)
C10_ReversePassNeverUnderflows ==
    /\ (pc = "subsize" /\ i >= 0) =>
          /\ SubsizePops(tree.node_type[i]) >= 0
          /\ Len(operents) >= SubsizePops(tree.node_type[i])
    /\ (pc = "subsize" /\ i < 0) => Len(operents) = 1
    /\ Validated =>
          /\ ~StackUnderflow(result)
          /\ ~TrailingOperands(result)
          /\ (~result.ok /\ result.in = "assert_valid") =>
                (result.line \in {165, 188} /\ result.class = "AssertionError")
    /\ (pc = "ready" /\ WalkLoop(tree, 0, 1) >= 0) =>
          LET b == SubsizeLoop(tree, WalkLoop(tree, 0, 1) - 1, <<>>)
          IN  IF b.ok THEN Len(b.operents) = 1
              ELSE b.class = "AssertionError" /\ b.line = 188

C10_Witness ==
    /\ pc = "subsize"
    /\ i >= 0
    /\ step.popped = 2
    /\ \E j \in 0 .. i : tree.subtree_size[j] # DSize(tree, j)

(***************************************************************************)
(* The recursive tree semantics of the interpreter's contract: for a       *)
(* binary node at slot k the child at k+1 is the right operand, the child  *)
(* after it the left operand, and the node is left OP right (DIV: left     *)
(* when right is zero).                                                    *)
(***************************************************************************)
RECURSIVE Sem(_, _, _)
Sem(t, inp, k) ==
    IF t.node_type[k] = NType.VAR THEN inp[t.node_value[k][1]]
    ELSE IF t.node_type[k] = NType.CONST THEN t.node_value[k]
    ELSE LET right == Sem(t, inp, k + 1)
             left == Sem(t, inp, k + 1 + t.subtree_size[k + 1])
             f == t.node_value[k][1]
         IN  IF f = Func.ADD THEN RAdd(left, right)
             ELSE IF f = Func.SUB THEN RSub(left, right)
             ELSE IF f = Func.MUL THEN RMul(left, right)
             ELSE IF right[1] = 0 THEN left ELSE RQuot(left, right)

AddX0X1(t) ==
    /\ t.gp_len = 3
    /\ t.input_len = 2
    /\ ASeq(t.node_type) = <<NType.BFUNC, NType.VAR, NType.VAR>>
    /\ ASeq(t.node_value) = <<R(Func.ADD), R(0), R(1)>>

Evaluated == pc = "idle" /\ result.op = "python_forward"

(***************************************************************************)
(* C4: on every valid single-output tree of CONST, VAR, ADD, SUB, MUL and  *)
(* DIV nodes python_forward returns the value of the recursive semantics   *)
(* in which the first value popped is the right operand (child at i+1),    *)
(* the second the left operand (child at i+1+subtree_size[i+1]) and the    *)
(* node is left OP right; ADD over VAR 0 and VAR 1 at [2, 3] gives 5.      *)
(***************************************************************************)
C4_EvaluateIsTreeSemantics ==
    (/\ Evaluated
     /\ Valid(tree)
     /\ Arithmetic(tree)
     /\ ALen(inputs) = tree.input_len) =>
        /\ result.ok
        /\ result.value = Sem(tree, inputs, 0)
        /\ (AddX0X1(tree) /\ inputs = Arr(<<R(2), R(3)>>)) => result.value = R(5)

C4_Witness ==
    /\ Evaluated
    /\ result.ok
    /\ Valid(tree)
    /\ Span(tree) = 5
    /\ tree.node_value[0] = R(Func.SUB)
    /\ tree.subtree_size[1] = 3
    /\ tree.node_value[1] = R(Func.DIV)
    /\ inputs = Arr(<<R(2), R(3)>>)
    /\ result.value # Sem(tree, inputs, 1)

(***************************************************************************)
(* Reading an infix string the natural way: in ( a OP b ) a is the left    *)
(* operand and b the right operand of OP.  ReadExpr reads one expression   *)
(* from position p and gives its value and the position after it.          *)
(***************************************************************************)
RECURSIVE ReadExpr(_, _, _)
ReadExpr(ts, p, inp) ==
    IF ts[p].k = "var" THEN [v |-> inp[ts[p].n[1]], p |-> p + 1]
    ELSE IF ts[p].k = "num" THEN [v |-> ts[p].n, p |-> p + 1]
    ELSE IF ts[p].k = "sym" /\ ts[p].s = "("
    THEN LET a == ReadExpr(ts, p + 1, inp)
             op == ts[a.p].s
             b == ReadExpr(ts, a.p + 1, inp)
             v == IF op = "+" THEN RAdd(a.v, b.v)
                  ELSE IF op = "-" THEN RSub(a.v, b.v)
                  ELSE IF op = "*" THEN RMul(a.v, b.v)
                  ELSE IF b.v[1] = 0 THEN a.v ELSE RQuot(a.v, b.v)
         IN  [v |-> v, p |-> b.p + 1]
    ELSE [v |-> R(0), p |-> Len(ts) + 1]

(***************************************************************************)
(* C5: for every valid single-output tree, the string of to_infix read     *)
(* the natural way and evaluated at an input vector gives the result of    *)
(* python_forward on that vector: a binary node is printed with the        *)
(* operand order the interpreter computes.                                 *)
(***************************************************************************)
C5_InfixReadsAsEvaluate ==
    (/\ pc = "idle"
     /\ result.op = "to_infix"
     /\ result.ok
     /\ Valid(tree)
     /\ Arithmetic(tree)) =>
        \A inp \in {x \in InputVecs(tree.input_len) : ALen(x) = tree.input_len} :
            /\ PythonForward(tree, inp).ok
            /\ ReadExpr(text, 1, inp).v = PythonForward(tree, inp).value

(***************************************************************************)
(* C6: a DIV node whose right operand (popped first) is exactly 0 yields   *)
(* exactly its left operand, whatever that is, without raising and         *)
(* without an undefined value; when the right operand is not within        *)
(* tolerance of zero it yields left / right.                               *)
(***************************************************************************)
C6_ProtectedDivision ==
    /\ (/\ pc = "python_forward"
        /\ i >= 0
        /\ i < tree.gp_len
        /\ tree.node_type[i] = NType.BFUNC
        /\ tree.node_value[i] = R(Func.DIV)
        /\ Len(operents) >= 2) =>
           LET b == ForwardBody(tree, inputs, i, operents)
               right == operents[Len(operents)]
               left == operents[Len(operents) - 1]
           IN  /\ b.ok
               /\ Top(b.operents)[2] > 0
               /\ right = R(0) => Top(b.operents) = left
               /\ ~AllCloseZero(right) =>
                     /\ RMul(Top(b.operents), right) = left
                     /\ Len(b.operents) = Len(operents) - 1
    /\ (/\ pc = "python_forward"
        /\ step.kind = "func"
        /\ tree.node_value[step.i] = R(Func.DIV)) =>
           /\ step.op1 = R(0) => step.res = step.op2
           /\ step.op1 # R(0) => RMul(step.res, step.op1) = step.op2

C6_Witness ==
    /\ pc = "python_forward"
    /\ step.kind = "func"
    /\ tree.node_value[step.i] = R(Func.DIV)
    /\ step.op1 = R(0)
    /\ step.op2 = R(3)
    /\ step.res = R(3)

(***************************************************************************)
(* C7 as stated: constructing a Tree fails with ShapeMismatch whenever the *)
(* three sequences do not have the same length, and also whenever          *)
(* input_len or output_len is zero or negative; no Tree is produced.       *)
(***************************************************************************)
SameShape(a) ==
    /\ ALen(a.node_type) = ALen(a.node_value)
    /\ ALen(a.subtree_size) = ALen(a.node_value)

ShapeMismatch(r) ==
    ~r.ok /\ r.op = "__init__" /\ r.class = "AssertionError" /\ r.line \in 19 .. 27

Constructed == pc \in {"ready", "failed"} /\ result.op = "__init__"

C7_RejectsShapesAndLengths ==
    (/\ Constructed
     /\ (~SameShape(args) \/ args.input_len <= 0 \/ args.output_len <= 0)) =>
        /\ ShapeMismatch(result)
        /\ pc = "failed"
        /\ tree = NoTree

(***************************************************************************)
(* C7 amended: constructing a Tree fails with ShapeMismatch exactly when   *)
(* node_type or subtree_size does not have the length gp_len of            *)
(* node_value, and then no Tree is produced; input_len and output_len are  *)
(* stored unchecked, so a zero or negative value does not make             *)
(* construction fail.                                                      *)
(***************************************************************************)
C7_RejectsShapes ==
    Constructed =>
        IF SameShape(args)
        THEN /\ result.ok
             /\ pc = "ready"
             /\ tree.gp_len = ALen(args.node_value)
             /\ tree.input_len = args.input_len
             /\ tree.output_len = args.output_len
             /\ tree.node_value = args.node_value
             /\ tree.node_type = args.node_type
             /\ tree.subtree_size = args.subtree_size
        ELSE /\ ShapeMismatch(result)
             /\ pc = "failed"
             /\ tree = NoTree

C7_Witness ==
    /\ pc = "failed"
    /\ ShapeMismatch(result)
    /\ ALen(args.node_type) = ALen(args.node_value)
    /\ ALen(args.subtree_size) < ALen(args.node_value)
    /\ args.input_len = 1

(***************************************************************************)
(* C8: no step of assert_valid, python_forward, __str__, to_infix or       *)
(* forward, succeeding or failing, changes the tree's value, type or       *)
(* subtree_size arrays or its gp_len, input_len or output_len.             *)
(***************************************************************************)
C8_ConsumersKeepTree == [][pc # "new" => tree' = tree]_vars

C8_Witness ==
    /\ pc = "idle"
    /\ result.op = "to_infix"
    /\ result.ok
    /\ text # <<>>
    /\ Span(tree) = 3
    /\ tree.node_type[0] = NType.BFUNC
    /\ tree.output_len = 1
====
